---- MODULE Spec2Model ----
(***************************************************************************)
(* CORVIU change-intelligence service (src/main.py, src/main_backup.py).   *)
(*                                                                         *)
(* The model covers the change-detection pipeline of main.py:              *)
(*   - the in-memory stores projects_db, changes_db, autodesk_tokens;      *)
(*   - check_project_for_changes, cut at its suspension points (the three  *)
(*     hosting-platform calls); everything between two suspensions is one  *)
(*     atomic step of the asyncio event loop;                              *)
(*   - the request handlers that create, connect, check and delete         *)
(*     projects, and the background scheduler schedule_checks;             *)
(*   - the per-file impact estimate (cost_impact, priority).               *)
(*   - the read handlers: the feed summary of main.py and the ROI report  *)
(*     of main.py and of main_backup.py.                                   *)
(*                                                                         *)
(* Conventions.  A file name is a sequence of one-character strings, so    *)
(* that Python's substring test and str.lower() are computed, not assumed. *)
(* A schedule impact is counted in half days (0.5 day = 1).  base_cost *=  *)
(* 1.5 is computed as (base_cost * 3) \div 2 (all baselines are even).     *)
(***************************************************************************)
EXTENDS Integers, Sequences, FiniteSets, TLC

(***************************************************************************)
(* Bounds of the model.                                                    *)
(***************************************************************************)
\* longest version history the hosting platform returns for one file
MaxVersions == 2
\* most entries a folder of the hosting platform lists
MaxItems == 2
\* most projects ever created in one run (project ids are never reused)
MaxProjects == 2
\* most request-driven checks (check-now, connect) in flight at once
MaxTasks == 1
\* last instant of the logical clock; the clock ticks when a suspended
\* coroutine resumes
MaxClock == 5

\* longest feed handed to the report handlers
MaxFeed == 4

(***************************************************************************)
(* Program constants of check_project_for_changes.                         *)
(***************************************************************************)
DefaultBaseCost == 5000
RevitBaseCost == 15000
DwgBaseCost == 8000
IfcBaseCost == 10000
LargeChangeBytes == 1000000
MagnifyNum == 3
MagnifyDen == 2
CriticalChangeBytes == 5000000

(***************************************************************************)
(* Strings.                                                                *)
(***************************************************************************)
\* str.lower() on one character (the upper-case letters the file names use)
LowerChar(c) ==
    CASE c = "R" -> "r"
      [] c = "V" -> "v"
      [] c = "T" -> "t"
      [] c = "S" -> "s"
      [] c = "D" -> "d"
      [] c = "W" -> "w"
      [] c = "G" -> "g"
      [] OTHER -> c

\* str.lower()
Lower(s) == [i \in 1..Len(s) |-> LowerChar(s[i])]

\* Python's `sub in s` for strings: sub occurs as a contiguous substring of s
Contains(s, sub) ==
    \E i \in 1..(Len(s) - Len(sub) + 1) : SubSeq(s, i, i + Len(sub) - 1) = sub

DotRvt == <<".", "r", "v", "t">>
DotDwg == <<".", "d", "w", "g">>
DotIfc == <<".", "i", "f", "c">>
DotNwd == <<".", "n", "w", "d">>
DotNwc == <<".", "n", "w", "c">>
DotRfa == <<".", "r", "f", "a">>

\* the extension list of the model-file filter
ModelExtensions == {DotRvt, DotDwg, DotIfc, DotNwd, DotNwc, DotRfa}

\* any(ext in file_name.lower() for ext in [...])
IsModelFileName(file_name) ==
    \E ext \in ModelExtensions : Contains(Lower(file_name), ext)

(***************************************************************************)
(* Version records and the per-file impact estimate.                       *)
(***************************************************************************)
\* dict.get("storageSize", 0) of a version's attributes
StorageSize(version) ==
    IF "storageSize" \in DOMAIN version THEN version.storageSize ELSE 0

Abs(x) == IF x < 0 THEN -x ELSE x

\* latest_attrs.get("storageSize", 0) - previous_attrs.get("storageSize", 0)
FileSizeChange(versions) == StorageSize(versions[1]) - StorageSize(versions[2])

\* faulty variant: drafting and interchange formats share one baseline
BaseCostThreeTiers(file_name) ==
    IF Contains(Lower(file_name), DotRvt) THEN RevitBaseCost
    ELSE IF Contains(Lower(file_name), DotDwg) THEN DwgBaseCost
    ELSE IF Contains(Lower(file_name), DotIfc) THEN DwgBaseCost
    ELSE DefaultBaseCost

\* base_cost before the size adjustment: first matching marker wins
BaseCost(file_name) ==
    IF Contains(Lower(file_name), DotRvt) THEN RevitBaseCost
    ELSE IF Contains(Lower(file_name), DotDwg) THEN DwgBaseCost
    ELSE IF Contains(Lower(file_name), DotIfc) THEN IfcBaseCost
    ELSE DefaultBaseCost

\* faulty variant: the size test without abs(), so that only growth magnifies
CostImpactSigned(file_name, file_size_change) ==
    IF file_size_change > LargeChangeBytes
    THEN (BaseCost(file_name) * MagnifyNum) \div MagnifyDen
    ELSE BaseCost(file_name)

\* faulty variant: a file that shrank yields a credit, the cost taking the
\* sign of the size change
CostImpactFollowsSign(file_name, file_size_change) ==
    IF file_size_change < 0
    THEN 0 - ((BaseCost(file_name) * MagnifyNum) \div MagnifyDen)
    ELSE BaseCost(file_name)

\* if abs(file_size_change) > 1000000: base_cost *= 1.5
CostImpact(file_name, file_size_change) ==
    IF Abs(file_size_change) > LargeChangeBytes
    THEN (BaseCost(file_name) * MagnifyNum) \div MagnifyDen
    ELSE BaseCost(file_name)

\* faulty variant: only growth beyond the threshold makes a Revit change critical
PriorityGrowthOnly(file_name, file_size_change) ==
    IF Contains(Lower(file_name), DotRvt)
    THEN IF file_size_change > CriticalChangeBytes THEN "critical" ELSE "high"
    ELSE "medium"

\* the inline priority rule of the check
Priority(file_name, file_size_change) ==
    IF Contains(Lower(file_name), DotRvt)
    THEN IF Abs(file_size_change) > CriticalChangeBytes THEN "critical" ELSE "high"
    ELSE "medium"

\* faulty variant: the cost of a change grows with the time of its detection
ChangeRecordCostByTime(file_name, versions, ts) ==
    [ id |-> ts,
      element_name |-> file_name,
      cost_impact |-> CostImpact(file_name, FileSizeChange(versions)) + ts,
      priority |-> Priority(file_name, FileSizeChange(versions)),
      detected_at |-> ts,
      details |-> [ file_size_change |-> FileSizeChange(versions),
                    version_number |-> versions[1].versionNumber,
                    previous_version |-> versions[2].versionNumber ] ]

\* the change record built for one model file
ChangeRecord(file_name, versions, ts) ==
    [ id |-> ts,
      element_name |-> file_name,
      cost_impact |-> CostImpact(file_name, FileSizeChange(versions)),
      priority |-> Priority(file_name, FileSizeChange(versions)),
      detected_at |-> ts,
      details |-> [ file_size_change |-> FileSizeChange(versions),
                    version_number |-> versions[1].versionNumber,
                    previous_version |-> versions[2].versionNumber ] ]

\* faulty variant: a new version counts only if the storage size changed
DetectChangeIfSizeChanged(file_name, versions, ts) ==
    IF Len(versions) > 1 /\ FileSizeChange(versions) # 0
    THEN <<ChangeRecord(file_name, versions, ts)>>
    ELSE <<>>

\* the body of the per-file loop: what one file adds to detected_changes
DetectChange(file_name, versions, ts) ==
    IF Len(versions) > 1 THEN <<ChangeRecord(file_name, versions, ts)>> ELSE <<>>

(***************************************************************************)
(* State.                                                                  *)
(***************************************************************************)
VARIABLES
    projects_db,      \* the dict's entries in insertion order; entry i is the
                      \* project with id i; `deleted` marks a removed key
    changes_db,       \* project id -> stored feed (a function on the keys)
    autodesk_tokens,  \* the token ids stored by the OAuth callback
    platform,         \* the hosting platform: top folders and their contents
    frames,           \* the executions of check_project_for_changes:
                      \* frame 0 is the scheduler's, 1..MaxTasks the requests'
    sched,            \* schedule_checks: position, dict iterator, last error
    now,              \* logical clock read by datetime.now()
    completed,        \* the checks that ended in the last step, in order
    probe             \* the estimate applied to a drawn input (SpecEstimate)

vars == <<projects_db, changes_db, autodesk_tokens, platform, frames, sched,
          now, completed, probe>>

ProjIds == 1..MaxProjects
TaskIds == 0..MaxTasks
RequestTasks == 1..MaxTasks

(***************************************************************************)
(* The hosting platform (external): top folders, their contents and the   *)
(* version history of every file, newest version first.                    *)
(***************************************************************************)
\* a version history with the given storage sizes, newest first
MkVersions(sizes) ==
    [i \in 1..Len(sizes) |->
        [versionNumber |-> Len(sizes) - i + 1, storageSize |-> sizes[i]]]

\* all sequences over S of length at most n
RECURSIVE SeqsUpTo(_, _)
SeqsUpTo(S, n) ==
    IF n = 0 THEN {<<>>}
    ELSE LET shorter == SeqsUpTo(S, n - 1)
         IN  shorter \cup {Append(q, x) : q \in shorter, x \in S}

FileItem(name, sizes) ==
    [type |-> "items", displayName |-> name, versions |-> MkVersions(sizes)]

SubFolder(name) ==
    [type |-> "folders", displayName |-> name, versions |-> <<>>]

\* GET .../topFolders with status 200: the "data" list
TopFolders(p) ==
    [f \in 1..Len(p.folders) |-> [id |-> f, name |-> p.folders[f].name]]

\* GET .../folders/{folder_id}/contents with status 200: the "data" list
FolderContents(p, folder_id) ==
    [i \in 1..Len(p.folders[folder_id].contents) |->
        [type |-> p.folders[folder_id].contents[i].type,
         id |-> <<folder_id, i>>,
         displayName |-> p.folders[folder_id].contents[i].displayName]]

\* GET .../items/{item_id}/versions with status 200: the "data" list
ItemVersions(p, item_id) ==
    p.folders[item_id[1]].contents[item_id[2]].versions

\* get_project_folders: [] on a non-200 status or an exception
GetProjectFolders(p, ok) == IF ok THEN TopFolders(p) ELSE <<>>

\* get_folder_contents: [] on a non-200 status or an exception
GetFolderContents(p, folder_id, ok) ==
    IF ok THEN FolderContents(p, folder_id) ELSE <<>>

\* get_item_versions: [] on a non-200 status or an exception
GetItemVersions(p, item_id, ok) == IF ok THEN ItemVersions(p, item_id) ELSE <<>>

(***************************************************************************)
(* Stores.                                                                 *)
(***************************************************************************)
\* d[k] = v on a dict
Put(d, k, v) == [x \in (DOMAIN d) \cup {k} |-> IF x = k THEN v ELSE d[x]]

\* del d[k]
Remove(d, k) == [x \in (DOMAIN d) \ {k} |-> d[x]]

\* project_id in projects_db
InProjects(db, project_id) ==
    project_id \in 1..Len(db) /\ ~db[project_id].deleted

\* len(projects_db)
LiveCount(db) == Cardinality({i \in 1..Len(db) : ~db[i].deleted})

\* the first live entry after position pos of the dict's entries, 0 if none
NextEntry(db, pos) ==
    IF \E i \in (pos + 1)..Len(db) : ~db[i].deleted
    THEN CHOOSE i \in (pos + 1)..Len(db) :
            ~db[i].deleted /\ \A j \in (pos + 1)..(i - 1) : db[j].deleted
    ELSE 0

IdleFrame ==
    [pc |-> "idle", project_id |-> 0, project_files_folder |-> 0,
     folders_ok |-> FALSE, contents_ok |-> FALSE,
     model_files |-> <<>>, fetched |-> <<>>, detected_changes |-> <<>>]

\* a check suspended in get_project_folders
FoldersFrame(project_id) ==
    [IdleFrame EXCEPT !.pc = "folders", !.project_id = project_id]

\* the record of a check that ended: which path it took, what it returned,
\* what it handed to the notifier and what it had fetched
Ended(project_id, path, result, emailed, frame) ==
    [project_id |-> project_id, path |-> path, result |-> result,
     emailed |-> emailed,
     folders_ok |-> frame.folders_ok, contents_ok |-> frame.contents_ok,
     model_files |-> frame.model_files, fetched |-> frame.fetched]

DemoSlabName ==
    <<"D","e","m","o",":"," ","L","e","v","e","l"," ","2"," ","S","l","a","b">>
MockCostImpact == 12500

\* the fabricated change of the two fall-back paths
MockChanges(description, ts) ==
    << [id |-> ts, element_name |-> DemoSlabName, description |-> description,
        cost_impact |-> MockCostImpact, priority |-> "medium",
        detected_at |-> ts] >>

\* project.get("email_notifications") and project.get("notification_email")
WantsEmail(project) ==
    project.email_notifications /\ project.notification_email # "None"

\* autodesk_project_id.split("."): str only; any other JSON value raises
IsStr(value) == value.kind = "str"

(***************************************************************************)
(* check_project_for_changes, one operator per stretch between two         *)
(* suspension points.  st = [projects_db, changes_db, completed].          *)
(***************************************************************************)
\* from the call to the first suspension (get_project_folders in flight),
\* to a return or to an exception raised before the try block
StartCheck(st, tokens, project_id, ts) ==
    LET project == st.projects_db[project_id] IN
    IF ~InProjects(st.projects_db, project_id)
    THEN [st |-> [st EXCEPT !.completed = Append(@,
                    Ended(project_id, "unknown_project", <<>>, <<>>, IdleFrame))],
          outcome |-> "returned"]
    ELSE IF project.autodesk_project_id.kind = "none"
    THEN LET mock == MockChanges("No Autodesk project linked", ts) IN
         [st |-> [st EXCEPT
                    !.changes_db = Put(@, project_id, mock),
                    !.completed = Append(@,
                        Ended(project_id, "no_autodesk_project", mock, <<>>, IdleFrame))],
          outcome |-> "returned"]
    ELSE IF project.token_id = "None" \/ project.token_id \notin tokens
    THEN LET mock == MockChanges("Token expired - using demo data", ts) IN
         [st |-> [st EXCEPT
                    !.changes_db = Put(@, project_id, mock),
                    !.completed = Append(@,
                        Ended(project_id, "no_token", mock,
                              IF WantsEmail(project) THEN <<mock>> ELSE <<>>,
                              IdleFrame))],
          outcome |-> "returned"]
    ELSE IF ~IsStr(project.autodesk_project_id)
    THEN [st |-> [st EXCEPT !.completed = Append(@,
                    Ended(project_id, "raised", <<>>, <<>>, IdleFrame))],
          outcome |-> "raised"]
    ELSE [st |-> st, outcome |-> "suspended"]

\* "Project Files" in folder_name or "Plans" in ... or "Models" in ...
ProjectFilesWord == <<"P","r","o","j","e","c","t"," ","F","i","l","e","s">>
PlansWord == <<"P","l","a","n","s">>
ModelsWord == <<"M","o","d","e","l","s">>
IsProjectFilesName(folder_name) ==
    \/ Contains(folder_name, ProjectFilesWord)
    \/ Contains(folder_name, PlansWord)
    \/ Contains(folder_name, ModelsWord)

\* faulty variant: the first listed folder is examined, whatever its name
ProjectFilesFolderFirstListed(folders) ==
    IF Len(folders) > 0 THEN folders[1].id ELSE 0

\* the folder the check examines: the first match, else the first folder,
\* else 0 (None)
ProjectFilesFolder(folders) ==
    IF \E i \in 1..Len(folders) : IsProjectFilesName(folders[i].name)
    THEN folders[CHOOSE i \in 1..Len(folders) :
                    /\ IsProjectFilesName(folders[i].name)
                    /\ \A j \in 1..(i - 1) : ~IsProjectFilesName(folders[j].name)].id
    ELSE IF Len(folders) > 0 THEN folders[1].id
    ELSE 0

\* faulty variant: every file of the folder is a candidate, whatever its name
ModelFilesAnyName(contents) ==
    LET IsFile(item) == item.type = "items" IN SelectSeq(contents, IsFile)

\* the model files among a folder's contents
IsModelFile(item) == item.type = "items" /\ IsModelFileName(item.displayName)
ModelFiles(contents) == SelectSeq(contents, IsModelFile)

\* faulty variant: the notifier is called for an empty feed as well
StoreAndReturnNotifyEmpty(st, frame, ts) ==
    LET project_id == frame.project_id
        project == st.projects_db[project_id]
        detected == frame.detected_changes
    IN  [st EXCEPT
            !.changes_db = Put(@, project_id, detected),
            !.projects_db[project_id].last_checked = ts,
            !.completed = Append(@,
                Ended(project_id, "stored", detected,
                      IF WantsEmail(project) THEN <<detected>> ELSE <<>>,
                      frame))]

\* faulty variant: the new changes are appended to the feed already stored
StoreAndReturnMerging(st, frame, ts) ==
    LET project_id == frame.project_id
        project == st.projects_db[project_id]
        detected == frame.detected_changes
        merged == IF project_id \in DOMAIN st.changes_db
                  THEN st.changes_db[project_id] \o detected ELSE detected
    IN  [st EXCEPT
            !.changes_db = Put(@, project_id, merged),
            !.projects_db[project_id].last_checked = ts,
            !.completed = Append(@,
                Ended(project_id, "stored", detected,
                      IF detected # <<>> /\ WantsEmail(project)
                      THEN <<detected>> ELSE <<>>,
                      frame))]

\* steps 4 and after: store the feed, stamp the project, notify, return
StoreAndReturn(st, frame, ts) ==
    LET project_id == frame.project_id
        project == st.projects_db[project_id]
        detected == frame.detected_changes
    IN  [st EXCEPT
            !.changes_db = Put(@, project_id, detected),
            !.projects_db[project_id].last_checked = ts,
            !.completed = Append(@,
                Ended(project_id, "stored", detected,
                      IF detected # <<>> /\ WantsEmail(project)
                      THEN <<detected>> ELSE <<>>,
                      frame))]

\* faulty variant: the no-folders path stamps the project as checked
NoFoldersReturnStamping(st, frame) ==
    [st EXCEPT
        !.changes_db = Put(@, frame.project_id, <<>>),
        !.projects_db[frame.project_id].last_checked = now + 1,
        !.completed = Append(@,
            Ended(frame.project_id, "no_folders", <<>>, <<>>, frame))]

\* "No folders found in project": store and return the empty feed
NoFoldersReturn(st, frame) ==
    [st EXCEPT
        !.changes_db = Put(@, frame.project_id, <<>>),
        !.completed = Append(@,
            Ended(frame.project_id, "no_folders", <<>>, <<>>, frame))]

(***************************************************************************)
(* schedule_checks: for project_id, project in projects_db.items().        *)
(* sched.pos is the dict iterator's position in the entries, sched.size    *)
(* the dict's size when the iterator was made, sched.yielded the entries   *)
(* it has yielded; cycle_due and cycle_checked record, for the cycle under *)
(* way, the nightly projects present at its start and the projects whose   *)
(* check it has called.                                                    *)
\* faulty variant: an exception out of a check ends the scheduler task
SchedAbortEndsLoop(st, s, error) ==
    [st |-> st, frame |-> IdleFrame,
     sched |-> [s EXCEPT !.pc = "stopped", !.error = error]]

(***************************************************************************)
\* except Exception as e: ... await asyncio.sleep(3600)
SchedAbort(st, s, error) ==
    [st |-> st, frame |-> IdleFrame,
     sched |-> [s EXCEPT !.pc = "sleep_retry", !.error = error]]

\* the for loop from the iterator's next() on, up to the next suspension:
\* a check suspended on the platform, or one of the two sleeps
RECURSIVE SchedNext(_, _, _, _)
SchedNext(st, tokens, s, ts) ==
    LET i == NextEntry(st.projects_db, s.pos) IN
    IF LiveCount(st.projects_db) # s.size
    THEN SchedAbort(st, s, "dict_changed")
    ELSE IF i = 0
    THEN [st |-> st, frame |-> IdleFrame, sched |-> [s EXCEPT !.pc = "sleep_day"]]
    ELSE IF s.yielded >= s.size
    THEN SchedAbort(st, s, "dict_changed")
    ELSE LET s1 == [s EXCEPT !.pos = i, !.yielded = @ + 1] IN
         IF st.projects_db[i].check_frequency # "nightly"
         THEN SchedNext(st, tokens, s1, ts)
         ELSE LET r == StartCheck(st, tokens, i, ts)
                  s2 == [s1 EXCEPT !.cycle_checked = @ \cup {i}]
              IN  CASE r.outcome = "returned" -> SchedNext(r.st, tokens, s2, ts)
                    [] r.outcome = "raised" -> SchedAbort(r.st, s2, "check_raised")
                    [] OTHER -> [st |-> r.st, frame |-> FoldersFrame(i),
                                 sched |-> [s2 EXCEPT !.pc = "checking"]]

\* while True: try: for ... -- a new iterator over the dict
SchedBegin(st, tokens, s, ts) ==
    SchedNext(st, tokens,
              [s EXCEPT !.pos = 0, !.yielded = 0, !.error = "none",
                        !.size = LiveCount(st.projects_db),
                        !.cycle_checked = {},
                        !.cycle_due = {i \in 1..Len(st.projects_db) :
                                          /\ ~st.projects_db[i].deleted
                                          /\ st.projects_db[i].check_frequency = "nightly"}],
              ts)

(***************************************************************************)
(* Actions.                                                                *)
(***************************************************************************)
Store == [projects_db |-> projects_db, changes_db |-> changes_db,
          completed |-> <<>>]

Commit(st) ==
    /\ projects_db' = st.projects_db
    /\ changes_db' = st.changes_db
    /\ completed' = st.completed

\* faulty variant: the feed is stored as it grows, after each model file
ResumeStoringProgress(t, st, frame) ==
    IF frame.pc = "versions" /\ frame.fetched # <<>>
    THEN /\ Commit([st EXCEPT !.changes_db =
                        Put(@, frame.project_id, frame.detected_changes)])
         /\ frames' = [frames EXCEPT ![t] = frame]
         /\ sched' = sched
    ELSE IF frame.pc # "idle"
    THEN Commit(st) /\ frames' = [frames EXCEPT ![t] = frame] /\ sched' = sched
    ELSE IF t = 0
    THEN LET r == SchedNext(st, autodesk_tokens, sched, now') IN
         Commit(r.st) /\ frames' = [frames EXCEPT ![0] = r.frame] /\ sched' = r.sched
    ELSE Commit(st) /\ frames' = [frames EXCEPT ![t] = IdleFrame] /\ sched' = sched

\* the caller of frame t gets control back: the scheduler goes on with its
\* loop in the same step, a request handler or background task just ends
Resume(t, st, frame) ==
    IF frame.pc # "idle"
    THEN Commit(st) /\ frames' = [frames EXCEPT ![t] = frame] /\ sched' = sched
    ELSE IF t = 0
    THEN LET r == SchedNext(st, autodesk_tokens, sched, now') IN
         Commit(r.st) /\ frames' = [frames EXCEPT ![0] = r.frame] /\ sched' = r.sched
    ELSE Commit(st) /\ frames' = [frames EXCEPT ![t] = IdleFrame] /\ sched' = sched

Tick == now < MaxClock /\ now' = now + 1

\* get_project_folders answers (ok) or fails; the folder is chosen
FoldersReturn(t, ok) ==
    /\ frames[t].pc = "folders"
    /\ Tick
    /\ LET folders == GetProjectFolders(platform, ok)
           frame == [frames[t] EXCEPT !.folders_ok = ok,
                        !.project_files_folder = ProjectFilesFolder(folders)]
       IN  IF frame.project_files_folder = 0
           THEN Resume(t, NoFoldersReturn(Store, frame), IdleFrame)
           ELSE Resume(t, Store, [frame EXCEPT !.pc = "contents"])
    /\ UNCHANGED <<autodesk_tokens, platform, probe>>

\* get_folder_contents answers or fails; the model files are selected
ContentsReturn(t, ok) ==
    /\ frames[t].pc = "contents"
    /\ Tick
    /\ LET contents == GetFolderContents(platform, frames[t].project_files_folder, ok)
           frame == [frames[t] EXCEPT !.contents_ok = ok,
                        !.model_files = ModelFiles(contents)]
       IN  IF frame.model_files = <<>>
           THEN Resume(t, StoreAndReturn(Store, frame, now'), IdleFrame)
           ELSE Resume(t, Store, [frame EXCEPT !.pc = "versions"])
    /\ UNCHANGED <<autodesk_tokens, platform, probe>>

\* get_item_versions answers or fails for the next model file; after the
\* last one the feed is stored
VersionsReturn(t, ok) ==
    /\ frames[t].pc = "versions"
    /\ Tick
    /\ LET model_file == frames[t].model_files[Len(frames[t].fetched) + 1]
           versions == GetItemVersions(platform, model_file.id, ok)
           frame == [frames[t] EXCEPT
                        !.fetched = Append(@, versions),
                        !.detected_changes =
                            @ \o DetectChange(model_file.displayName, versions, now')]
       IN  IF Len(frame.fetched) = Len(frame.model_files)
           THEN Resume(t, StoreAndReturn(Store, frame, now'), IdleFrame)
           ELSE Resume(t, Store, frame)
    /\ UNCHANGED <<autodesk_tokens, platform, probe>>

\* the scheduler task starts, or wakes from either sleep, and runs a cycle
SchedWake ==
    /\ sched.pc \in {"init", "sleep_day", "sleep_retry"}
    /\ Tick
    /\ LET r == SchedBegin(Store, autodesk_tokens, sched, now') IN
       Commit(r.st) /\ frames' = [frames EXCEPT ![0] = r.frame] /\ sched' = r.sched
    /\ UNCHANGED <<autodesk_tokens, platform, probe>>

\* GET /auth/callback: the exchanged token is stored under a new id
AuthCallback(token_id) ==
    /\ token_id \notin autodesk_tokens
    /\ autodesk_tokens' = autodesk_tokens \cup {token_id}
    /\ completed' = <<>>
    /\ UNCHANGED <<projects_db, changes_db, platform, frames, sched, now, probe>>

NoAutodeskProject == [kind |-> "none", text |-> ""]

NewProject(autodesk_project_id, token_id, check_frequency, email, last_checked) ==
    [autodesk_project_id |-> autodesk_project_id, token_id |-> token_id,
     check_frequency |-> check_frequency,
     email_notifications |-> email.email_notifications,
     notification_email |-> email.notification_email,
     last_checked |-> last_checked, deleted |-> FALSE]

\* POST /api/projects
CreateProject(check_frequency, email) ==
    /\ Len(projects_db) < MaxProjects
    /\ projects_db' = Append(projects_db,
            NewProject(NoAutodeskProject, "None", check_frequency, email, 0))
    /\ completed' = <<>>
    /\ UNCHANGED <<changes_db, autodesk_tokens, platform, frames, sched, now, probe>>

\* POST /api/projects/connect-autodesk: the project is stored, then checked
\* at once inside the handler (task t)
ConnectProject(t, token_id, autodesk_project_id, check_frequency, email) ==
    /\ token_id \in autodesk_tokens
    /\ Len(projects_db) < MaxProjects
    /\ frames[t].pc = "idle"
    /\ LET st == [Store EXCEPT !.projects_db = Append(@,
                    NewProject(autodesk_project_id, token_id, check_frequency, email, 0))]
           r == StartCheck(st, autodesk_tokens, Len(st.projects_db), now)
       IN  /\ Commit(r.st)
           /\ frames' = IF r.outcome = "suspended"
                        THEN [frames EXCEPT ![t] = FoldersFrame(Len(st.projects_db))]
                        ELSE frames
    /\ UNCHANGED <<autodesk_tokens, platform, sched, now, probe>>

\* POST /api/projects/{project_id}/check-now: queue a background task
TriggerCheck(t, project_id) ==
    /\ InProjects(projects_db, project_id)
    /\ frames[t].pc = "idle"
    /\ frames' = [frames EXCEPT ![t] =
                    [IdleFrame EXCEPT !.pc = "pending", !.project_id = project_id]]
    /\ completed' = <<>>
    /\ UNCHANGED <<projects_db, changes_db, autodesk_tokens, platform, sched, now, probe>>

\* the queued background task runs check_project_for_changes
BackgroundStart(t) ==
    /\ frames[t].pc = "pending"
    /\ LET r == StartCheck(Store, autodesk_tokens, frames[t].project_id, now) IN
       /\ Commit(r.st)
       /\ frames' = [frames EXCEPT ![t] =
                        IF r.outcome = "suspended"
                        THEN FoldersFrame(frames[t].project_id) ELSE IdleFrame]
    /\ UNCHANGED <<autodesk_tokens, platform, sched, now, probe>>

\* DELETE /api/projects/{project_id}
DeleteProject(project_id) ==
    /\ InProjects(projects_db, project_id)
    /\ projects_db' = [projects_db EXCEPT ![project_id].deleted = TRUE]
    /\ changes_db' = IF project_id \in DOMAIN changes_db
                     THEN Remove(changes_db, project_id) ELSE changes_db
    /\ completed' = <<>>
    /\ UNCHANGED <<autodesk_tokens, platform, frames, sched, now, probe>>

\* POST /api/demo/seed: a demo project and its three sample changes
SeedDemoChanges(ts) ==
    << [id |-> ts, element_name |-> <<"L","e","v","e","l"," ","2"," ","S","l","a","b">>,
        description |-> "Moved 75mm north",
        cost_impact |-> 12500, priority |-> "critical", detected_at |-> ts],
       [id |-> ts, element_name |-> <<"M","E","P"," ","C","o","o","r","d","i","n","a","t","i","o","n">>,
        description |-> "12 new light fixtures added",
        cost_impact |-> 3200, priority |-> "medium", detected_at |-> ts],
       [id |-> ts, element_name |-> <<"S","t","r","u","c","t","u","r","a","l"," ","C","o","l","u","m","n">>,
        description |-> "Column size increased",
        cost_impact |-> 8900, priority |-> "high", detected_at |-> ts] >>

SeedDemoData ==
    /\ Len(projects_db) < MaxProjects
    /\ projects_db' = Append(projects_db,
            NewProject(NoAutodeskProject, "None", "nightly",
                [email_notifications |-> TRUE,
                 notification_email |-> "pm@construction.com"], now))
    /\ changes_db' = Put(changes_db, Len(projects_db) + 1, SeedDemoChanges(now))
    /\ completed' = <<>>
    /\ UNCHANGED <<autodesk_tokens, platform, frames, sched, now, probe>>

(***************************************************************************)
(* The read handlers: GET /api/projects/{project_id}/changes.              *)
(***************************************************************************)
\* c.get("cost_impact", 0)
CostOf(c) == IF "cost_impact" \in DOMAIN c THEN c.cost_impact ELSE 0

\* sum(c.get("cost_impact", 0) for c in changes)
RECURSIVE SumCost(_)
SumCost(changes) ==
    IF changes = <<>> THEN 0 ELSE CostOf(Head(changes)) + SumCost(Tail(changes))

\* len([c for c in changes if c.get("priority") == "critical"])
CriticalCount(changes) ==
    Cardinality({i \in 1..Len(changes) : changes[i].priority = "critical"})

\* changes_db.get(project_id, [])
StoredFeed(changes, project_id) ==
    IF project_id \in DOMAIN changes THEN changes[project_id] ELSE <<>>

\* get_project_changes: 404 for an unknown project, else the feed and its
\* summary
GetProjectChanges(projects, changes, project_id) ==
    IF ~InProjects(projects, project_id)
    THEN [status |-> 404]
    ELSE [status |-> 200,
          changes |-> StoredFeed(changes, project_id),
          summary |->
            [total_changes |-> Len(StoredFeed(changes, project_id)),
             critical_count |-> CriticalCount(StoredFeed(changes, project_id)),
             total_cost_impact |-> SumCost(StoredFeed(changes, project_id))]]

(***************************************************************************)
(* The read handlers: GET /api/projects/{project_id}/roi, in main.py and   *)
(* in main_backup.py.  main.py computes in integers.  main_backup.py       *)
(* computes in floats that are multiples of 0.5; its amounts are held in   *)
(* thousandths (0.5 hour = 500), and round(x, d) is computed on them.      *)
(***************************************************************************)
\* main.py: len(changes) // 3, meetings_saved * 2, hours_saved * 150
MeetingDivisor == 3
HoursPerMeeting == 2
HourlyRate == 150

\* main_backup.py: len(changes) // 2, len(changes) * 0.5, hours_saved * 155
BackupMeetingDivisor == 2
BackupHoursPerChange == 500
BackupHourlyRate == 155

\* faulty variant: the rate is applied to the meetings, not to the hours
GetRoiMetricsRatePerMeeting(projects, changes, project_id) ==
    IF ~InProjects(projects, project_id)
    THEN [status |-> 404]
    ELSE LET n == Len(StoredFeed(changes, project_id))
             meetings_saved == n \div MeetingDivisor
             hours_saved == meetings_saved * HoursPerMeeting
         IN  [status |-> 200,
              meetings_saved |-> meetings_saved,
              hours_saved |-> hours_saved,
              cost_saved |-> meetings_saved * HourlyRate,
              decisions_accelerated |-> n]

\* main.py get_roi_metrics
GetRoiMetrics(projects, changes, project_id) ==
    IF ~InProjects(projects, project_id)
    THEN [status |-> 404]
    ELSE LET n == Len(StoredFeed(changes, project_id))
             meetings_saved == n \div MeetingDivisor
             hours_saved == meetings_saved * HoursPerMeeting
             cost_saved == hours_saved * HourlyRate
         IN  [status |-> 200,
              meetings_saved |-> meetings_saved,
              hours_saved |-> hours_saved,
              cost_saved |-> cost_saved,
              decisions_accelerated |-> n]

\* round(x, d) on a non-negative amount in thousandths: to the nearest
\* multiple of 10^(3-d) thousandths, a tie going to the even multiple
RoundTo(x, unit) ==
    LET q == x \div unit
        r == x % unit
    IN  IF 2 * r < unit THEN q * unit
        ELSE IF 2 * r > unit THEN (q + 1) * unit
        ELSE IF q % 2 = 0 THEN q * unit ELSE (q + 1) * unit

\* len([c for c in changes if c.get("priority") in ["critical", "high"]])
UrgentCount(changes) ==
    Cardinality({i \in 1..Len(changes) : changes[i].priority \in {"critical", "high"}})

\* main_backup.py get_roi_metrics (no 404: an unknown project has no feed)
GetRoiMetricsBackup(changes, project_id) ==
    LET feed == StoredFeed(changes, project_id)
        meetings_saved == Len(feed) \div BackupMeetingDivisor
        hours_saved == Len(feed) * BackupHoursPerChange
        cost_saved == hours_saved * BackupHourlyRate
    IN  [status |-> 200,
         meetings_saved |-> meetings_saved,
         hours_saved |-> RoundTo(hours_saved, 100),
         cost_saved |-> RoundTo(cost_saved, 10),
         decisions_accelerated |-> UrgentCount(feed)]

\* GET /api/projects/{project_id}/roi served by main.py
RoiRequest(project_id) ==
    /\ probe' = << [handler |-> "main", project_id |-> project_id,
                    report |-> GetRoiMetrics(projects_db, changes_db, project_id)] >>
    /\ completed' = <<>>
    /\ UNCHANGED <<projects_db, changes_db, autodesk_tokens, platform, frames,
                   sched, now>>

\* GET /api/projects/{project_id}/roi served by main_backup.py
RoiRequestBackup(project_id) ==
    /\ probe' = << [handler |-> "backup", project_id |-> project_id,
                    report |-> GetRoiMetricsBackup(changes_db, project_id)] >>
    /\ completed' = <<>>
    /\ UNCHANGED <<projects_db, changes_db, autodesk_tokens, platform, frames,
                   sched, now>>

\* main_backup.py POST /api/demo/seed: its three sample changes, the
\* schedule_impact of 3, 1 and 0.5 days held in half days
SeedDemoChangesBackup(ts) ==
    << [id |-> ts, element_name |-> <<"L","e","v","e","l"," ","2"," ","S","l","a","b">>,
        description |-> "Slab moved 75mm north",
        cost_impact |-> 45000, schedule_impact |-> 6,
        priority |-> "critical", detected_at |-> ts],
       [id |-> ts, element_name |-> <<"L","i","g","h","t","i","n","g">>,
        description |-> "12 new light fixtures added",
        cost_impact |-> 8400, schedule_impact |-> 2,
        priority |-> "high", detected_at |-> ts],
       [id |-> ts, element_name |-> <<"W","a","l","l","s">>,
        description |-> "3 walls relocated",
        cost_impact |-> 3200, schedule_impact |-> 1,
        priority |-> "medium", detected_at |-> ts] >>

\* c.get("schedule_impact", 0), in half days
ScheduleOf(c) == IF "schedule_impact" \in DOMAIN c THEN c.schedule_impact ELSE 0

\* max((c.get("schedule_impact", 0) for c in changes), default=0)
RECURSIVE MaxSchedule(_)
MaxSchedule(changes) ==
    IF changes = <<>> THEN 0
    ELSE IF Len(changes) = 1 THEN ScheduleOf(Head(changes))
    ELSE LET rest == MaxSchedule(Tail(changes))
         IN  IF ScheduleOf(Head(changes)) >= rest
             THEN ScheduleOf(Head(changes)) ELSE rest

\* main_backup.py get_changes: zeros for a missing or empty feed, else the
\* feed and its four aggregates
GetChangesBackup(changes, project_id) ==
    LET feed == StoredFeed(changes, project_id)
    IN  IF feed = <<>>
        THEN [status |-> 200, total_changes |-> 0, critical_changes |-> 0,
              total_cost_impact |-> 0, total_schedule_impact |-> 0,
              changes |-> <<>>]
        ELSE [status |-> 200,
              total_changes |-> Len(feed),
              critical_changes |-> CriticalCount(feed),
              total_cost_impact |-> SumCost(feed),
              total_schedule_impact |-> MaxSchedule(feed),
              changes |-> feed]

\* main_backup.py POST /api/demo/seed: a project of three fields (it has no
\* check_frequency, no platform reference, no notification settings) and
\* its three sample changes
SeedDemoDataBackup ==
    /\ Len(projects_db) < MaxProjects
    /\ projects_db' = Append(projects_db,
            NewProject(NoAutodeskProject, "None", "None",
                [email_notifications |-> FALSE, notification_email |-> "None"], 0))
    /\ changes_db' = Put(changes_db, Len(projects_db) + 1, SeedDemoChangesBackup(now))
    /\ completed' = <<>>
    /\ UNCHANGED <<autodesk_tokens, platform, frames, sched, now, probe>>

\* GET /api/projects/{project_id}/changes served by main.py
ChangesRequest(project_id) ==
    /\ probe' = << [handler |-> "main", project_id |-> project_id,
                    response |-> GetProjectChanges(projects_db, changes_db, project_id)] >>
    /\ completed' = <<>>
    /\ UNCHANGED <<projects_db, changes_db, autodesk_tokens, platform, frames,
                   sched, now>>

\* GET /api/projects/{project_id}/changes served by main_backup.py
ChangesRequestBackup(project_id) ==
    /\ probe' = << [handler |-> "backup", project_id |-> project_id,
                    response |-> GetChangesBackup(changes_db, project_id)] >>
    /\ completed' = <<>>
    /\ UNCHANGED <<projects_db, changes_db, autodesk_tokens, platform, frames,
                   sched, now>>

(***************************************************************************)
(* Inputs.                                                                 *)
(***************************************************************************)
NameRvt == <<"s",".","r","v","t">>
NameRvtUpper == <<"S",".","R","V","T">>
NameDwg == <<"p",".","d","w","g">>
NameIfc == <<"m",".","i","f","c">>
NameNwd == <<"c",".","n","w","d">>
NameNwc == <<"c",".","n","w","c">>
NameRfa == <<"f",".","r","f","a">>
NameDwgPdf == <<"p",".","d","w","g",".","p","d","f">>
NameTxt == <<"n",".","t","x","t">>

FileNames == {NameRvt, NameRvtUpper, NameDwg, NameIfc, NameNwd, NameNwc,
              NameRfa, NameDwgPdf, NameTxt}

\* storage sizes whose differences sit on both sides of the two byte
\* thresholds: 0, 1, 1000000, 1000001, 5000000, 5000001 and 6000001 bytes
\* of difference all occur
Sizes == {0, 1000000, 1000001, 6000001}

TokenIds == {"tok1"}
LinkedProject == [kind |-> "str", text |-> "b.a1b2c3"]
\* a JSON number where the project reference is expected
NumberProject == [kind |-> "num", text |-> "12345"]
EmailOn == [email_notifications |-> TRUE, notification_email |-> "pm@site.com"]
EmailOff == [email_notifications |-> FALSE, notification_email |-> "None"]
\* the options of the connect form
CheckFrequencies == {"nightly", "hourly", "weekly", "manual"}

DocsFolderName == <<"D","o","c","s">>
PlansFolderName == <<"P","l","a","n","s">>

\* the platforms of the service-level specification
NoFoldersPlatform == [folders |-> <<>>]
NoModelsPlatform ==
    [folders |-> << [name |-> DocsFolderName,
                     contents |-> <<FileItem(NameTxt, <<1000000, 0>>)>>] >>]
TwoModelsPlatform ==
    [folders |-> << [name |-> DocsFolderName,
                     contents |-> <<FileItem(NameIfc, <<1000000, 0>>)>>],
                    [name |-> PlansFolderName,
                     contents |-> <<FileItem(NameRvt, <<6000001, 1000000>>),
                                    FileItem(NameDwg, <<1000000, 1000000>>)>>] >>]
ServicePlatforms == {NoFoldersPlatform, NoModelsPlatform, TwoModelsPlatform}

InitService ==
    /\ projects_db = <<>>
    /\ changes_db = <<>>
    /\ autodesk_tokens = {}
    /\ frames = [t \in TaskIds |-> IdleFrame]
    /\ sched = [pc |-> "init", pos |-> 0, size |-> 0, yielded |-> 0,
                error |-> "none", cycle_due |-> {}, cycle_checked |-> {}]
    /\ now = 1
    /\ completed = <<>>
    /\ probe = <<>>

(***************************************************************************)
(* Spec: the service.                                                      *)
(***************************************************************************)
\* the frequencies drawn at service level: the one the scheduler serves and
\* one it does not
ServiceFrequencies == {"nightly", "manual"}

Init == InitService /\ platform \in ServicePlatforms

Next ==
    \/ \E token_id \in TokenIds : AuthCallback(token_id)
    \/ \E f \in ServiceFrequencies : CreateProject(f, EmailOff)
    \/ \E t \in RequestTasks, token_id \in TokenIds,
          a \in {LinkedProject, NumberProject},
          f \in ServiceFrequencies, e \in {EmailOn, EmailOff} :
            ConnectProject(t, token_id, a, f, e)
    \/ SeedDemoData
    \/ \E t \in RequestTasks, project_id \in ProjIds : TriggerCheck(t, project_id)
    \/ \E t \in RequestTasks : BackgroundStart(t)
    \/ \E project_id \in ProjIds : DeleteProject(project_id)
    \/ SchedWake
    \/ \E t \in TaskIds, ok \in BOOLEAN : FoldersReturn(t, ok)
    \/ \E t \in TaskIds, ok \in BOOLEAN : ContentsReturn(t, ok)
    \/ \E t \in TaskIds, ok \in BOOLEAN : VersionsReturn(t, ok)

Spec == Init /\ [][Next]_vars

(***************************************************************************)
(* SpecBuild: one check of a connected project, over every folder listing  *)
(* of at most MaxItems entries.  It starts where ConnectProject leaves the *)
(* service: the token stored, project 1 linked, its check suspended in     *)
(* get_project_folders.                                                    *)
(***************************************************************************)
BuildNames == {NameRvt, NameDwgPdf, NameTxt}
\* histories of every length with equal sizes, and one with a size change
BuildSizeLists ==
    SeqsUpTo({1000000}, MaxVersions) \cup {<<1000001, 1000000>>}
BuildItems ==
    {FileItem(n, sz) : n \in BuildNames, sz \in BuildSizeLists}
        \cup {SubFolder(NameRvt)}
BuildPlatforms ==
    {[folders |-> << [name |-> ProjectFilesWord, contents |-> c] >>] :
        c \in SeqsUpTo(BuildItems, MaxItems)}

InitBuild ==
    /\ platform \in BuildPlatforms
    /\ projects_db = <<NewProject(LinkedProject, "tok1", "manual", EmailOn, 0)>>
    /\ changes_db = <<>>
    /\ autodesk_tokens = {"tok1"}
    /\ frames = [t \in TaskIds |-> IF t = 1 THEN FoldersFrame(1) ELSE IdleFrame]
    /\ sched = [pc |-> "init", pos |-> 0, size |-> 0, yielded |-> 0,
                error |-> "none", cycle_due |-> {}, cycle_checked |-> {}]
    /\ now = 1
    /\ completed = <<>>
    /\ probe = <<>>

NextBuild ==
    \/ \E ok \in BOOLEAN : FoldersReturn(1, ok)
    \/ \E ok \in BOOLEAN : ContentsReturn(1, ok)
    \/ \E ok \in BOOLEAN : VersionsReturn(1, ok)

SpecBuild == InitBuild /\ [][NextBuild]_vars

(***************************************************************************)
(* SpecRepeat: check-now on a project that has been checked before.  It    *)
(* starts after an earlier check of project 1 has stored its feed; project *)
(* 2 is the seeded demo project with its three sample changes.  The prior  *)
(* feed is the one a check builds from some folder listing, which may or   *)
(* may not be the listing the platform holds now.                          *)
(***************************************************************************)
RepeatItems ==
    {FileItem(NameRvt, <<1000001, 1000000>>),
     FileItem(NameDwg, <<1000000, 1000000>>),
     FileItem(NameDwg, <<1000000>>)}
RepeatPlatforms ==
    {[folders |-> << [name |-> ProjectFilesWord, contents |-> c] >>] :
        c \in SeqsUpTo(RepeatItems, MaxItems)}

\* the loop over the model files with every request answered: file k of n
\* is compared and stamped n - k instants before the feed is stored at ts
RECURSIVE CompareAll(_, _, _, _)
CompareAll(p, model_files, k, ts) ==
    IF k > Len(model_files) THEN <<>>
    ELSE DetectChange(model_files[k].displayName,
                      GetItemVersions(p, model_files[k].id, TRUE),
                      ts - (Len(model_files) - k))
            \o CompareAll(p, model_files, k + 1, ts)

\* the feed a check stores at ts when every platform request is answered
FeedOf(p, ts) ==
    LET folders == GetProjectFolders(p, TRUE)
        folder == ProjectFilesFolder(folders)
    IN  IF folder = 0 THEN <<>>
        ELSE CompareAll(p, ModelFiles(GetFolderContents(p, folder, TRUE)), 1, ts)

InitRepeat ==
    /\ platform \in RepeatPlatforms
    /\ \E prior \in RepeatPlatforms, email \in {EmailOn, EmailOff} :
        /\ projects_db =
            << NewProject(LinkedProject, "tok1", "manual", email, 1),
               NewProject(NoAutodeskProject, "None", "nightly",
                   [email_notifications |-> TRUE,
                    notification_email |-> "pm@construction.com"], 1) >>
        /\ changes_db = << FeedOf(prior, 1), SeedDemoChanges(1) >>
    /\ autodesk_tokens = {"tok1"}
    /\ frames = [t \in TaskIds |-> IdleFrame]
    /\ sched = [pc |-> "init", pos |-> 0, size |-> 0, yielded |-> 0,
                error |-> "none", cycle_due |-> {}, cycle_checked |-> {}]
    /\ now = 1
    /\ completed = <<>>
    /\ probe = <<>>

NextRepeat ==
    \/ \E project_id \in ProjIds : TriggerCheck(1, project_id)
    \/ BackgroundStart(1)
    \/ \E ok \in BOOLEAN : FoldersReturn(1, ok)
    \/ \E ok \in BOOLEAN : ContentsReturn(1, ok)
    \/ \E ok \in BOOLEAN : VersionsReturn(1, ok)

SpecRepeat == InitRepeat /\ [][NextRepeat]_vars

(***************************************************************************)
(* SpecEstimate: the per-file estimate applied to drawn inputs.  probe     *)
(* holds the last input and what the loop body made of it.                 *)
(***************************************************************************)
EstimateNames == {n \in FileNames : IsModelFileName(n)}
EstimateVersions == {MkVersions(sz) : sz \in SeqsUpTo(Sizes, MaxVersions)}

Estimate(file_name, versions) ==
    /\ probe' = << [file_name |-> file_name, versions |-> versions,
                    changes |-> DetectChange(file_name, versions, now)] >>
    /\ UNCHANGED <<projects_db, changes_db, autodesk_tokens, platform, frames,
                   sched, now, completed>>

InitEstimate == InitService /\ platform = NoFoldersPlatform

NextEstimate ==
    \E file_name \in EstimateNames, versions \in EstimateVersions :
        Estimate(file_name, versions)

SpecEstimate == InitEstimate /\ [][NextEstimate]_vars

(***************************************************************************)
(* SpecReport: the ROI handlers applied to a stored feed.  Project 1 has a *)
(* feed of at most MaxFeed changes of the kinds a check produces (medium,  *)
(* high, critical); the other project ids are unknown.                     *)
(***************************************************************************)
ReportChanges ==
    {ChangeRecord(NameDwg, MkVersions(<<1000000, 1000000>>), 1),
     ChangeRecord(NameRvt, MkVersions(<<1000000, 1000000>>), 1),
     ChangeRecord(NameRvt, MkVersions(<<6000001, 0>>), 1)}
ReportFeeds == SeqsUpTo(ReportChanges, MaxFeed)

InitReport ==
    /\ platform = NoFoldersPlatform
    /\ projects_db = <<NewProject(LinkedProject, "tok1", "manual", EmailOff, 1)>>
    /\ \E feed \in ReportFeeds : changes_db = <<feed>>
    /\ autodesk_tokens = {"tok1"}
    /\ frames = [t \in TaskIds |-> IdleFrame]
    /\ sched = [pc |-> "init", pos |-> 0, size |-> 0, yielded |-> 0,
                error |-> "none", cycle_due |-> {}, cycle_checked |-> {}]
    /\ now = 1
    /\ completed = <<>>
    /\ probe = <<>>

NextReport ==
    \/ \E project_id \in ProjIds : RoiRequest(project_id)
    \/ \E project_id \in ProjIds : RoiRequestBackup(project_id)

SpecReport == InitReport /\ [][NextReport]_vars

(***************************************************************************)
(* SpecSummary: the feed handlers applied to a stored feed.  Project 1 has *)
(* a feed of at most MaxFeed changes, each of a kind a check of main.py    *)
(* produces or of a kind main_backup.py seeds; the other project ids are   *)
(* unknown.                                                                *)
(***************************************************************************)
SummaryChanges ==
    {ChangeRecord(NameDwg, MkVersions(<<1000000, 1000000>>), 1),
     ChangeRecord(NameRvt, MkVersions(<<6000001, 0>>), 1)}
    \cup {SeedDemoChangesBackup(1)[i] : i \in 1..3}
SummaryFeeds == SeqsUpTo(SummaryChanges, MaxFeed)

InitSummary ==
    /\ platform = NoFoldersPlatform
    /\ projects_db = <<NewProject(LinkedProject, "tok1", "manual", EmailOff, 1)>>
    /\ \E feed \in SummaryFeeds : changes_db = <<feed>>
    /\ autodesk_tokens = {"tok1"}
    /\ frames = [t \in TaskIds |-> IdleFrame]
    /\ sched = [pc |-> "init", pos |-> 0, size |-> 0, yielded |-> 0,
                error |-> "none", cycle_due |-> {}, cycle_checked |-> {}]
    /\ now = 1
    /\ completed = <<>>
    /\ probe = <<>>

NextSummary ==
    \/ \E project_id \in ProjIds : ChangesRequest(project_id)
    \/ \E project_id \in ProjIds : ChangesRequestBackup(project_id)

SpecSummary == InitSummary /\ [][NextSummary]_vars

(***************************************************************************)
(* SpecMonitor: the scheduled monitor alone, on a store that requests have *)
(* filled while it slept.  The scheduler task was started at startup, ran  *)
(* its first cycle over the empty store and sleeps; since then projects    *)
(* were created or connected with the frequencies the connect form offers, *)
(* and the check inside each connect request has ended with every platform *)
(* request answered.  From there only the scheduler runs.  A sleep ends    *)
(* and a platform request is answered or times out, hence the weak         *)
(* fairness of the two kinds of step.                                      *)
(***************************************************************************)
MonitorKinds ==
    {NewProject(LinkedProject, "tok1", f, EmailOff, 0) : f \in CheckFrequencies}
    \cup {NewProject(NumberProject, "tok1", "nightly", EmailOff, 0),
          NewProject(NoAutodeskProject, "None", "nightly", EmailOff, 0)}
\* no folder at all, or one folder with one model file that has changed (a
\* check of it takes the four steps the clock allows)
OneModelPlatform ==
    [folders |-> << [name |-> ProjectFilesWord,
                     contents |-> <<FileItem(NameRvt, <<1000001, 1000000>>)>>] >>]
MonitorPlatforms == {NoFoldersPlatform, OneModelPlatform}

\* what the check inside the connect request left: a stamp and a feed when
\* it reached the store step, an empty feed when no folder was listed,
\* nothing when it raised; a created project has had no check
AfterConnect(p, project) ==
    IF project.autodesk_project_id.kind = "str"
            /\ ProjectFilesFolder(GetProjectFolders(p, TRUE)) # 0
    THEN [project EXCEPT !.last_checked = 1]
    ELSE project
FeedsAfterConnect(p, projects) ==
    [i \in {k \in 1..Len(projects) : projects[k].autodesk_project_id.kind = "str"}
        |-> FeedOf(p, 1)]

InitMonitor ==
    /\ platform \in MonitorPlatforms
    /\ \E kinds \in SeqsUpTo(MonitorKinds, MaxProjects) :
        /\ kinds # <<>>
        /\ projects_db = [i \in 1..Len(kinds) |-> AfterConnect(platform, kinds[i])]
        /\ changes_db = FeedsAfterConnect(platform, kinds)
    /\ autodesk_tokens = {"tok1"}
    /\ frames = [t \in TaskIds |-> IdleFrame]
    /\ sched = [pc |-> "sleep_day", pos |-> 0, size |-> 0, yielded |-> 0,
                error |-> "none", cycle_due |-> {}, cycle_checked |-> {}]
    /\ now = 1
    /\ completed = <<>>
    /\ probe = <<>>

MonitorFoldersReturn == \E ok \in BOOLEAN : FoldersReturn(0, ok)
MonitorContentsReturn == \E ok \in BOOLEAN : ContentsReturn(0, ok)
MonitorVersionsReturn == \E ok \in BOOLEAN : VersionsReturn(0, ok)

NextMonitor ==
    \/ SchedWake
    \/ MonitorFoldersReturn
    \/ MonitorContentsReturn
    \/ MonitorVersionsReturn

\* await asyncio.sleep(86400) or asyncio.sleep(3600) returns: time passes
\* while the scheduler sleeps (the step is SchedWake)
SleepEnds == sched.pc \in {"init", "sleep_day", "sleep_retry"} /\ Tick

\* the awaited platform request returns or raises within the client's
\* timeout: time passes while the scheduler's check is suspended (the step
\* is one of the three returns of task 0)
PlatformAnswers == frames[0].pc \in {"folders", "contents", "versions"} /\ Tick

SpecMonitor ==
    /\ InitMonitor
    /\ [][NextMonitor]_vars
    /\ WF_now(SleepEnds)
    /\ WF_now(PlatformAnswers)

(***************************************************************************)
(* SpecFeeds: every way a feed gets into changes_db or out of it, without  *)
(* the scheduler.  The service has a token and an empty store.  Run as     *)
(* main.py it serves connect (with its check), demo seeding, check-now     *)
(* (one background task) and delete of the first project; run as          *)
(* main_backup.py it serves demo seeding only.                             *)
(* The two programs never share a store: the first project stored decides  *)
(* which of the two the behaviour is of.                                   *)
(***************************************************************************)
\* a file that shrank by more than both thresholds
FeedsItems == {FileItem(NameRvt, <<1000000, 6000001>>)}
FeedsPlatforms ==
    {[folders |-> << [name |-> ProjectFilesWord, contents |-> c] >>] :
        c \in SeqsUpTo(FeedsItems, MaxItems)}

\* the store holds projects of main.py only, of main_backup.py only
MainStore ==
    \A i \in 1..Len(projects_db) : projects_db[i].check_frequency # "None"
BackupStore ==
    \A i \in 1..Len(projects_db) : projects_db[i].check_frequency = "None"

InitFeeds ==
    /\ platform \in FeedsPlatforms
    /\ projects_db = <<>>
    /\ changes_db = <<>>
    /\ autodesk_tokens = {"tok1"}
    /\ frames = [t \in TaskIds |-> IdleFrame]
    /\ sched = [pc |-> "init", pos |-> 0, size |-> 0, yielded |-> 0,
                error |-> "none", cycle_due |-> {}, cycle_checked |-> {}]
    /\ now = 1
    /\ completed = <<>>
    /\ probe = <<>>

NextFeeds ==
    \/ MainStore /\ \E a \in {LinkedProject, NumberProject} :
                        ConnectProject(1, "tok1", a, "manual", EmailOff)
    \/ MainStore /\ SeedDemoData
    \/ MainStore /\ \E project_id \in ProjIds : TriggerCheck(1, project_id)
    \/ MainStore /\ BackgroundStart(1)
    \/ MainStore /\ DeleteProject(1)
    \/ \E ok \in BOOLEAN : FoldersReturn(1, ok)
    \/ \E ok \in BOOLEAN : ContentsReturn(1, ok)
    \/ \E ok \in BOOLEAN : VersionsReturn(1, ok)
    \/ BackupStore /\ SeedDemoDataBackup

SpecFeeds == InitFeeds /\ [][NextFeeds]_vars

(***************************************************************************)
(* SpecFolders: one check of a linked project on a platform with up to     *)
(* MaxFolders top-level folders.  Each folder has files of its own names,  *)
(* all with a new version; one folder also has a subfolder with a tracked  *)
(* file in it.                                                             *)
(***************************************************************************)
MaxFolders == 2

SubFolderName == <<"s","u","b">>
BimModelsFolderName == <<"B","I","M"," ","M","o","d","e","l","s">>

\* a folder among a folder's contents, with what it holds
SubFolderWith(name, contents) ==
    [type |-> "folders", displayName |-> name, versions |-> <<>>,
     contents |-> contents]

FolderKinds ==
    {[name |-> DocsFolderName,
      contents |-> <<FileItem(NameIfc, <<1000001, 1000000>>)>>],
     [name |-> PlansFolderName,
      contents |-> <<SubFolderWith(SubFolderName,
                        <<FileItem(NameNwd, <<1000001, 1000000>>)>>),
                     FileItem(NameRvt, <<1000001, 1000000>>)>>],
     [name |-> BimModelsFolderName,
      contents |-> <<FileItem(NameDwg, <<1000001, 1000000>>)>>],
     [name |-> DocsFolderName, contents |-> <<>>]}
FolderPlatforms == {[folders |-> f] : f \in SeqsUpTo(FolderKinds, MaxFolders)}

InitFolders ==
    /\ platform \in FolderPlatforms
    /\ projects_db = <<NewProject(LinkedProject, "tok1", "manual", EmailOff, 0)>>
    /\ changes_db = <<>>
    /\ autodesk_tokens = {"tok1"}
    /\ frames = [t \in TaskIds |-> IF t = 1 THEN FoldersFrame(1) ELSE IdleFrame]
    /\ sched = [pc |-> "init", pos |-> 0, size |-> 0, yielded |-> 0,
                error |-> "none", cycle_due |-> {}, cycle_checked |-> {}]
    /\ now = 1
    /\ completed = <<>>
    /\ probe = <<>>

NextFolders ==
    \/ \E ok \in BOOLEAN : FoldersReturn(1, ok)
    \/ \E ok \in BOOLEAN : ContentsReturn(1, ok)
    \/ \E ok \in BOOLEAN : VersionsReturn(1, ok)

SpecFolders == InitFolders /\ [][NextFolders]_vars

(***************************************************************************)
(* Properties.                                                             *)
(***************************************************************************)
\* c.get("schedule_impact", 0), in half days
ScheduleImpactOf(c) ==
    IF "schedule_impact" \in DOMAIN c THEN c.schedule_impact ELSE 0

\* the priority table of the specification, top-down, first match wins
\* (schedule thresholds 3, 1 and 0.5 days are 6, 2 and 1 half days)
TableClassify(cost_impact, schedule_impact) ==
    IF cost_impact > 10000 \/ schedule_impact > 6 THEN "critical"
    ELSE IF cost_impact > 5000 \/ schedule_impact > 2 THEN "high"
    ELSE IF cost_impact > 1000 \/ schedule_impact > 1 THEN "medium"
    ELSE "low"

\* the changes the estimate made of the drawn input
ProbeChanges == {s.changes[1] : s \in {x \in {probe[i] : i \in 1..Len(probe)} : x.changes # <<>>}}

\* every change the estimate can make of an input of the drawn sets
AllEstimates ==
    {DetectChange(n, v, now)[1] :
        n \in EstimateNames, v \in {x \in EstimateVersions : Len(x) > 1}}

\* the size change of the drawn input, read from the input itself
ProbeDelta(s) == s.versions[1].storageSize - s.versions[2].storageSize

\* the history with its two newest versions' sizes exchanged
SwapSizes(versions) ==
    [i \in 1..Len(versions) |->
        IF i = 1 THEN [versions[1] EXCEPT !.storageSize = versions[2].storageSize]
        ELSE IF i = 2 THEN [versions[2] EXCEPT !.storageSize = versions[1].storageSize]
        ELSE versions[i]]

\* C1: every change's priority is the threshold table applied to its
\* (cost_impact, schedule_impact): critical above 10000 or 3 days, else high
\* above 5000 or 1 day, else medium above 1000 or half a day, else low.
C1_PriorityFollowsTable ==
    \A c \in ProbeChanges :
        c.priority = TableClassify(c.cost_impact, ScheduleImpactOf(c))

\* C2: priority is a function of (cost_impact, schedule_impact): a change
\* the check produced and any other change it can produce, with equal cost
\* and equal schedule impact, have equal priority.
C2_PriorityIsFunctionOfImpacts ==
    \A c \in ProbeChanges : \A d \in AllEstimates :
        (c.cost_impact = d.cost_impact /\ ScheduleImpactOf(c) = ScheduleImpactOf(d))
            => c.priority = d.priority

\* C9: cost_impact is the file type's baseline when the absolute size change
\* does not exceed the large-change threshold and the baseline magnified by
\* 3/2 when it does; exchanging the two sizes (shrink for growth) gives the
\* same cost.
C9_CostMagnifiedByAbsoluteDelta ==
    \A i \in 1..Len(probe) :
        probe[i].changes # <<>> =>
            LET s == probe[i]
                c == s.changes[1]
                d == ProbeDelta(s)
                mirrored == DetectChange(s.file_name, SwapSizes(s.versions), now)[1]
            IN  /\ (d <= LargeChangeBytes /\ -d <= LargeChangeBytes)
                        => c.cost_impact = BaseCost(s.file_name)
                /\ (d > LargeChangeBytes \/ -d > LargeChangeBytes)
                        => MagnifyDen * c.cost_impact = MagnifyNum * BaseCost(s.file_name)
                /\ mirrored.cost_impact = c.cost_impact

\* C9 witness: a file that shrank by more than the threshold got the
\* magnified cost
C9_Witness ==
    \E i \in 1..Len(probe) :
        /\ probe[i].changes # <<>>
        /\ ProbeDelta(probe[i]) < -LargeChangeBytes
        /\ probe[i].changes[1].cost_impact > BaseCost(probe[i].file_name)

\* the extension of a file name: from its last dot on (empty if no dot)
Extension(name) ==
    IF \E i \in 1..Len(name) : name[i] = "."
    THEN LET last == CHOOSE i \in 1..Len(name) :
                        name[i] = "." /\ \A j \in (i + 1)..Len(name) : name[j] # "."
         IN  SubSeq(name, last, Len(name))
    ELSE <<>>

\* the three classes of the specification: 3 the richest format, 2 drafting
\* and interchange formats, 1 any other extension
TierOf(name) ==
    IF Extension(Lower(name)) = DotRvt THEN 3
    ELSE IF Extension(Lower(name)) \in {DotDwg, DotIfc} THEN 2
    ELSE 1

\* the baseline behind a change's cost: the cost with the magnification undone
BaselineOf(s) ==
    IF ProbeDelta(s) > LargeChangeBytes \/ -ProbeDelta(s) > LargeChangeBytes
    THEN (s.changes[1].cost_impact * MagnifyDen) \div MagnifyNum
    ELSE s.changes[1].cost_impact

CompletedChecks == {completed[i] : i \in 1..Len(completed)}

\* the element names of a feed, in feed order
ElementNames(feed) == [i \in 1..Len(feed) |-> feed[i].element_name]

\* the names of the candidate files whose fetched version list has at least
\* two entries, in candidate order
RECURSIVE NamesWithTwoVersions(_, _)
NamesWithTwoVersions(model_files, fetched) ==
    IF fetched = <<>> THEN <<>>
    ELSE LET n == Len(fetched)
             rest == NamesWithTwoVersions(model_files, SubSeq(fetched, 1, n - 1))
         IN  IF Len(fetched[n]) >= 2
             THEN Append(rest, model_files[n].displayName)
             ELSE rest

\* C7: a candidate file yields a change exactly when its fetched version
\* list has at least two entries, whatever the two sizes are: while the
\* versions are being fetched and when the feed is stored, the feed holds one
\* change per candidate with two or more fetched versions and nothing else.
C7_ChangeIffTwoVersions ==
    /\ \A t \in TaskIds :
        frames[t].pc = "versions" =>
            ElementNames(frames[t].detected_changes) =
                NamesWithTwoVersions(frames[t].model_files, frames[t].fetched)
    /\ \A e \in CompletedChecks :
        e.path = "stored" =>
            ElementNames(e.result) = NamesWithTwoVersions(e.model_files, e.fetched)

\* C7 witness: a stored feed of two candidates; the one with two versions
\* of identical size yielded a change with size delta 0, the one with a
\* single version yielded nothing
C7_Witness ==
    \E e \in CompletedChecks :
        /\ e.path = "stored"
        /\ Len(e.fetched) = 2
        /\ \E i, j \in 1..2 :
            /\ Len(e.fetched[i]) = 2
            /\ e.fetched[i][1].storageSize = e.fetched[i][2].storageSize
            /\ Len(e.fetched[j]) = 1
        /\ Len(e.result) = 1
        /\ e.result[1].details.file_size_change = 0

\* C8: only files whose extension is on the allow-list are compared: every
\* candidate selected for a version fetch is a file whose name ends in one
\* of .rvt, .dwg, .ifc, .nwd, .nwc, .rfa, and so is every change of a feed.
C8_OnlyAllowListedExtensions ==
    /\ \A t \in TaskIds : \A i \in 1..Len(frames[t].model_files) :
        /\ frames[t].model_files[i].type = "items"
        /\ Extension(Lower(frames[t].model_files[i].displayName)) \in ModelExtensions
    /\ \A e \in CompletedChecks : \A i \in 1..Len(e.result) :
        e.path = "stored" =>
            Extension(Lower(e.result[i].element_name)) \in ModelExtensions

\* C3: in a scheduler cycle that ended, by completion or by an exception of
\* a check, every project that was due at its start and still exists has
\* had its check called in that cycle.
C3_FailureDoesNotBlockOthers ==
    (sched.pc \in {"sleep_day", "sleep_retry"} /\ sched.error # "dict_changed") =>
        \A p \in sched.cycle_due :
            InProjects(projects_db, p) => p \in sched.cycle_checked

\* a check suspended on one of its three platform calls
InProgress(frame) == frame.pc \in {"folders", "contents", "versions"}

\* C4: no two executions of the check are in progress for the same project.
C4_OneCheckPerProject ==
    \A t, u \in TaskIds :
        (t # u /\ InProgress(frames[t]) /\ InProgress(frames[u])) =>
            frames[t].project_id # frames[u].project_id

\* the folder listing or the folder contents could not be fetched
SourceFailed(e) ==
    \/ e.path = "no_folders" /\ ~e.folders_ok
    \/ e.path = "stored" /\ ~e.contents_ok

\* the check returned normally with an empty feed, which it also stored
ReturnedEmptyFeed(e) == e.path \in {"no_folders", "stored"} /\ e.result = <<>>

\* C5: a check whose folder listing or folder contents could not be fetched
\* does not end by storing and returning an empty feed.
C5_SourceFailureIsNotEmptyFeed ==
    \A e \in CompletedChecks : SourceFailed(e) => ~ReturnedEmptyFeed(e)

\* the change was built from two fetched version records of a candidate
DerivedFromVersions(c, e) ==
    \E i \in 1..Len(e.fetched) :
        /\ Len(e.fetched[i]) >= 2
        /\ c.element_name = e.model_files[i].displayName
        /\ "details" \in DOMAIN c
        /\ c.details.version_number = e.fetched[i][1].versionNumber
        /\ c.details.previous_version = e.fetched[i][2].versionNumber

\* C6: every change a check stores and returns, and every change it hands
\* to the notifier, was derived from a fetched pair of version records.
C6_NoFabricatedFeed ==
    \A e \in CompletedChecks :
        /\ \A i \in 1..Len(e.result) : DerivedFromVersions(e.result[i], e)
        /\ \A k \in 1..Len(e.emailed) : \A i \in 1..Len(e.emailed[k]) :
            DerivedFromVersions(e.emailed[k][i], e)

\* the rank of a priority: low < medium < high < critical
Rank(priority) ==
    CASE priority = "low" -> 1
      [] priority = "medium" -> 2
      [] priority = "high" -> 3
      [] priority = "critical" -> 4

\* C11: priority is monotonic in the impacts: a change the check can produce
\* whose cost_impact and schedule_impact are both at least those of the
\* change it produced has a priority rank that is not lower.
C11_PriorityMonotonic ==
    \A c \in ProbeChanges : \A d \in AllEstimates :
        (d.cost_impact >= c.cost_impact /\ ScheduleImpactOf(d) >= ScheduleImpactOf(c))
            => Rank(d.priority) >= Rank(c.priority)

\* C12: a Revit file whose two newest versions differ by more than 5,000,000
\* bytes, in either direction, yields one change whose cost is the magnified
\* Revit baseline (above 10000) and whose priority is critical.
C12_LargeRevitChangeIsCritical ==
    \A i \in 1..Len(probe) :
        LET s == probe[i] IN
        (/\ Extension(Lower(s.file_name)) = DotRvt
         /\ Len(s.versions) >= 2
         /\ (ProbeDelta(s) > 5000000 \/ -ProbeDelta(s) > 5000000)) =>
            /\ Len(s.changes) = 1
            /\ MagnifyDen * s.changes[1].cost_impact = MagnifyNum * RevitBaseCost
            /\ s.changes[1].cost_impact > 10000
            /\ s.changes[1].priority = "critical"

\* C12 witness: a Revit file that shrank by more than 5,000,000 bytes was
\* estimated and its change is critical
C12_Witness ==
    \E i \in 1..Len(probe) :
        /\ probe[i].file_name = NameRvtUpper
        /\ Len(probe[i].versions) >= 2
        /\ ProbeDelta(probe[i]) < -5000000
        /\ probe[i].changes # <<>>
        /\ probe[i].changes[1].priority = "critical"
        /\ probe[i].changes[1].cost_impact = 22500

\* no folder of the platform lists a file that passes the model-file filter
NoTrackableFiles(p) ==
    \A f \in 1..Len(p.folders) : \A i \in 1..Len(p.folders[f].contents) :
        ~IsModelFile(p.folders[f].contents[i])

C14_FeedNewestFirst ==
    \A e \in CompletedChecks :
        e.path = "stored" =>
            /\ \A i \in 1..(Len(e.result) - 1) :
                e.result[i].detected_at >= e.result[i + 1].detected_at
            /\ \A i \in 1..(Len(changes_db[e.project_id]) - 1) :
                changes_db[e.project_id][i].detected_at >=
                    changes_db[e.project_id][i + 1].detected_at

\* what the idempotence property compares: count, and position by position
\* element_name, cost_impact and priority (not id, not detected_at)
Content(feed) ==
    [i \in 1..Len(feed) |->
        [element_name |-> feed[i].element_name,
         cost_impact |-> feed[i].cost_impact,
         priority |-> feed[i].priority]]

\* the check e was given the folder listing and every version history the
\* platform holds
FetchedAll(e) ==
    /\ e.folders_ok
    /\ e.contents_ok
    /\ \A i \in 1..Len(e.model_files) :
        e.fetched[i] = ItemVersions(platform, e.model_files[i].id)

\* the feed was built by an earlier check from the data the platform holds
BuiltFromSameData(feed) ==
    \E ts \in 0..MaxClock : Content(feed) = Content(FeedOf(platform, ts))

\* C15: a check of a project whose stored feed was built by an earlier check
\* from the same folder listing and version data, and which is given that
\* data again, yields a feed with the same number of changes and, position
\* by position, the same element_name, cost_impact and priority.
C15_RepeatedCheckSameContent ==
    [][ \A i \in 1..Len(completed') :
            LET e == completed'[i] IN
            (/\ e.path = "stored"
             /\ FetchedAll(e)
             /\ e.project_id \in DOMAIN changes_db
             /\ BuiltFromSameData(changes_db[e.project_id])) =>
                Content(e.result) = Content(changes_db[e.project_id]) ]_vars

\* C15 witness: a later check of unchanged data ended with the two changes
\* the earlier one had found
C15_Witness ==
    \E e \in CompletedChecks :
        /\ e.path = "stored"
        /\ FetchedAll(e)
        /\ Len(e.result) = 2
        /\ e.result[2].detected_at > 1
        /\ Content(e.result) = Content(FeedOf(platform, 1))
        /\ e.result # FeedOf(platform, 1)

\* C16 as stated: a check that succeeds with a non-empty feed has persisted
\* it and has called the notifier with exactly that feed; one that succeeds
\* with an empty feed has not called the notifier.
C16_NotifyWhenNonEmpty ==
    \A e \in CompletedChecks :
        e.path = "stored" =>
            /\ changes_db[e.project_id] = e.result
            /\ e.emailed = IF e.result # <<>> THEN <<e.result>> ELSE <<>>

\* C16 amended: a check that succeeds with a non-empty feed has persisted it
\* and, if the project has notifications enabled and a notification address,
\* has called the notifier once with exactly that feed; without them, or
\* with an empty feed, it has not called the notifier.
C16_NotifyWhenConfigured ==
    \A e \in CompletedChecks :
        e.path = "stored" =>
            /\ changes_db[e.project_id] = e.result
            /\ e.emailed =
                IF e.result # <<>> /\ WantsEmail(projects_db[e.project_id])
                THEN <<e.result>> ELSE <<>>

\* C16 witness: a check of a project with notifications enabled succeeded
\* with a non-empty feed, stored it and handed it to the notifier
C16_Witness ==
    \E e \in CompletedChecks :
        /\ e.path = "stored"
        /\ e.result # <<>>
        /\ WantsEmail(projects_db[e.project_id])
        /\ e.emailed = <<e.result>>
        /\ changes_db[e.project_id] = e.result

\* the paths on which a check writes the project's feed
WritesFeed(e) ==
    e.path \in {"stored", "no_folders", "no_autodesk_project", "no_token"}

\* C17: a check that finishes leaves in changes_db, for its project, exactly
\* the changes it produced, and leaves the stored feed of every other
\* project as it was.
C17_CheckReplacesFeed ==
    [][ \A i \in 1..Len(completed') :
            LET e == completed'[i] IN
            WritesFeed(e) =>
                /\ e.project_id \in DOMAIN changes_db'
                /\ changes_db'[e.project_id] = e.result
                /\ \A q \in (DOMAIN changes_db) \ {e.project_id} :
                    q \in DOMAIN changes_db' /\ changes_db'[q] = changes_db[q] ]_vars

\* C17 witness: a check of project 1 found one change; the project's feed is
\* that change alone, stamped after the earlier feed, and the demo project's
\* feed is untouched
C17_Witness ==
    \E e \in CompletedChecks :
        /\ e.path = "stored"
        /\ e.project_id = 1
        /\ Len(e.result) = 1
        /\ changes_db[1] = e.result
        /\ \A i \in 1..Len(changes_db[1]) : changes_db[1][i].detected_at > 1
        /\ changes_db[2] = SeedDemoChanges(1)

\* the reports the handlers gave in the last step
RoiSamples == {probe[i] : i \in 1..Len(probe)}

\* the feed a sample's report was computed from
SampleFeed(s) == StoredFeed(changes_db, s.project_id)

\* the hourly rate of the implementation that served the sample
RateOf(s) == IF s.handler = "main" THEN HourlyRate ELSE BackupHourlyRate

\* C18: every ROI report satisfies cost_saved = hours_saved * HOURLY_RATE
\* exactly, with the hourly rate of the implementation that computed it, and
\* for the empty feed meetings_saved, hours_saved and cost_saved are 0.
C18_CostIsHoursTimesRate ==
    \A s \in RoiSamples :
        s.report.status = 200 =>
            /\ s.report.cost_saved = s.report.hours_saved * RateOf(s)
            /\ SampleFeed(s) = <<>> =>
                /\ s.report.meetings_saved = 0
                /\ s.report.hours_saved = 0
                /\ s.report.cost_saved = 0

\* C18 witness: main.py reported on a feed of MeetingDivisor or more
\* changes, with hours and cost above zero
C18_Witness ==
    \E s \in RoiSamples :
        /\ s.handler = "main"
        /\ s.report.status = 200
        /\ Len(SampleFeed(s)) >= MeetingDivisor
        /\ s.report.hours_saved > 0
        /\ s.report.cost_saved = s.report.hours_saved * 150

\* the report each implementation gives for a feed
ReportFor(handler, feed) ==
    IF handler = "main"
    THEN GetRoiMetrics(projects_db, <<feed>>, 1)
    ELSE GetRoiMetricsBackup(<<feed>>, 1)

\* the divisor of the implementation that served the sample
DivisorOf(s) == IF s.handler = "main" THEN MeetingDivisor ELSE BackupMeetingDivisor

\* C19: for a feed of n changes the report has meetings_saved = n divided
\* (integer division) by the implementation's divisor, and hours_saved
\* proportional to n: hours_saved(n) * m = hours_saved(m) * n for feeds of
\* n and m changes.
C19_HoursProportionalToChanges ==
    \A s \in RoiSamples :
        s.report.status = 200 =>
            /\ s.report.meetings_saved = Len(SampleFeed(s)) \div DivisorOf(s)
            /\ \A g \in ReportFeeds :
                s.report.hours_saved * Len(g) =
                    ReportFor(s.handler, g).hours_saved * Len(SampleFeed(s))

\* C20: decisions_accelerated is the number of changes of the feed whose
\* priority is critical or high.
C20_DecisionsCountUrgentChanges ==
    \A s \in RoiSamples :
        s.report.status = 200 =>
            s.report.decisions_accelerated =
                Cardinality({i \in 1..Len(SampleFeed(s)) :
                    SampleFeed(s)[i].priority \in {"critical", "high"}})


\* the feed responses sampled so far, and the feed each was computed from
FeedSamples ==
    {i \in 1..Len(probe) : "response" \in DOMAIN probe[i]
                           /\ probe[i].response.status = 200}
SampledFeed(s) == StoredFeed(changes_db, s.project_id)

\* the aggregates a response reports, under the names of the specification:
\* main.py nests three of them in "summary"; main_backup.py reports four,
\* the maximum schedule impact as total_schedule_impact
Aggregates(s) ==
    IF s.handler = "main"
    THEN [total |-> s.response.summary.total_changes,
          critical_count |-> s.response.summary.critical_count,
          total_cost_impact |-> s.response.summary.total_cost_impact]
    ELSE [total |-> s.response.total_changes,
          critical_count |-> s.response.critical_changes,
          total_cost_impact |-> s.response.total_cost_impact,
          max_schedule_impact |-> s.response.total_schedule_impact]

\* the aggregates of a feed, from the stored Changes
RECURSIVE FeedCost(_, _)
FeedCost(feed, n) == IF n = 0 THEN 0 ELSE feed[n].cost_impact + FeedCost(feed, n - 1)
FeedMaxSchedule(feed) ==
    IF feed = <<>> THEN 0
    ELSE CHOOSE m \in {ScheduleImpactOf(feed[i]) : i \in 1..Len(feed)} :
            \A i \in 1..Len(feed) : ScheduleImpactOf(feed[i]) <= m

\* C21: the summary reported for a project's feed agrees with the stored
\* Changes: total is their number, critical_count the number with priority
\* critical, total_cost_impact the sum of their cost_impact, and
\* max_schedule_impact the maximum of their schedule_impact (0 when empty)
C21_SummaryAgreesWithFeed ==
    \A i \in FeedSamples :
        LET s == probe[i]
            feed == SampledFeed(s)
            a == Aggregates(s)
        IN  /\ a.total = Len(feed)
            /\ a.critical_count =
                 Cardinality({k \in 1..Len(feed) : feed[k].priority = "critical"})
            /\ a.total_cost_impact = FeedCost(feed, Len(feed))
            /\ "max_schedule_impact" \in DOMAIN a
            /\ a.max_schedule_impact = FeedMaxSchedule(feed)

\* the three aggregates main.py reports, and the four main_backup.py reports,
\* agree with the stored Changes
ReportedAggregatesAgree ==
    \A i \in FeedSamples :
        LET s == probe[i]
            feed == SampledFeed(s)
            a == Aggregates(s)
        IN  /\ a.total = Len(feed)
            /\ a.critical_count =
                 Cardinality({k \in 1..Len(feed) : feed[k].priority = "critical"})
            /\ a.total_cost_impact = FeedCost(feed, Len(feed))
            /\ "max_schedule_impact" \in DOMAIN a
                 => a.max_schedule_impact = FeedMaxSchedule(feed)


\* a step of the scheduler that ends a cycle normally: the for loop ran out
\* of entries and the task went to its 24 hour sleep
CycleCompletes == now' # now /\ sched' # sched /\ sched'.pc = "sleep_day"

\* the periodic frequencies of the connect form
PeriodicFrequencies == {"hourly", "nightly", "weekly"}

\* C22: every project whose check_frequency is periodic (hourly, nightly or
\* weekly) is checked by the scheduled monitor without a manual trigger, and
\* only manual projects are skipped: a cycle that runs to its end has
\* checked every periodic project and no manual one
C22_PeriodicProjectsAreChecked ==
    [][CycleCompletes =>
        \A p \in 1..Len(projects_db') :
            InProjects(projects_db', p) =>
                (p \in sched'.cycle_checked
                    <=> projects_db'[p].check_frequency \in PeriodicFrequencies)]_vars

\* what the scheduler does: a cycle that runs to its end has checked the
\* nightly projects and no other
NightlyProjectsAreChecked ==
    [][CycleCompletes =>
        \A p \in 1..Len(projects_db') :
            InProjects(projects_db', p) =>
                (p \in sched'.cycle_checked
                    <=> projects_db'[p].check_frequency = "nightly")]_vars


\* the monitor's two states for project p: Checking while the scheduler's
\* check of p is suspended on the platform, Idle otherwise
MonitorChecking(p) ==
    frames[0].pc \in {"folders", "contents", "versions"} /\ frames[0].project_id = p
MonitorSleeping == sched.pc \in {"sleep_day", "sleep_retry"}

\* the loop is in one of its three positions, and in "checking" exactly when
\* one nightly project's check is under way
MonitorShape ==
    /\ sched.pc \in {"checking", "sleep_day", "sleep_retry"}
    /\ sched.pc = "checking" <=> \E p \in ProjIds : MonitorChecking(p)
    /\ \A p \in ProjIds :
        MonitorChecking(p) =>
            /\ InProjects(projects_db, p)
            /\ projects_db[p].check_frequency = "nightly"
            /\ p \in sched.cycle_checked

\* a check of this project raises out of check_project_for_changes
RaisesOnCheck(project) ==
    project.check_frequency = "nightly" /\ project.autodesk_project_id.kind = "num"

\* every cycle over the store, once it has ended, has attempted every
\* nightly project up to and including the first one whose check raises:
\* what failed in one cycle (by a platform failure or by raising) is
\* attempted again in the next
AttemptedEachCycle ==
    (MonitorSleeping /\ sched.size = LiveCount(projects_db)) =>
        /\ sched.cycle_checked =
             {p \in 1..Len(projects_db) :
                /\ projects_db[p].check_frequency = "nightly"
                /\ \A q \in 1..(p - 1) : ~RaisesOnCheck(projects_db[q])}
        /\ sched.pc = "sleep_retry"
             <=> \E p \in 1..Len(projects_db) : RaisesOnCheck(projects_db[p])

\* C23: per project the monitor is a state machine Idle -> Checking -> Idle:
\* every check that starts returns to Idle whether it succeeds or fails, a
\* failed check is attempted again in the next cycle, and no failure of a
\* check ends the monitor loop (each sleep is followed by a new cycle);
\* "eventually" is within the horizon of the clock
C23_MonitorStateMachine ==
    /\ []MonitorShape
    /\ []AttemptedEachCycle
    /\ \A p \in ProjIds :
        MonitorChecking(p) ~> (~MonitorChecking(p) \/ now = MaxClock)
    /\ \A n \in 1..(MaxClock - 1) :
        (MonitorSleeping /\ now = n) ~> (now > n /\ sched.size = LiveCount(projects_db))

\* the one project's check failed on the folder listing in the first cycle
\* (it ended at instant 3 although the platform has folders), and the second
\* cycle is checking it again
C23_Witness ==
    /\ LiveCount(projects_db) = 1
    /\ platform.folders # <<>>
    /\ now = 4
    /\ MonitorChecking(1)
    /\ frames[0].pc = "folders"

\* the first project's check raised in the first cycle and again in the
\* second: the loop survived the exception and tried again
C23_RaisedTwice ==
    /\ now = 3
    /\ sched.pc = "sleep_retry"
    /\ sched.error = "check_raised"
    /\ \E i \in 1..Len(completed) : completed[i].path = "raised"


\* the version history of candidate i could not be fetched: the platform
\* holds versions of the file and the check got none
VersionFetchFailed(e, i) ==
    e.fetched[i] = <<>> /\ ItemVersions(platform, e.model_files[i].id) # <<>>

\* the feed says of this file that it was not checked
FlaggedUnchecked(feed, model_file) ==
    \E k \in 1..Len(feed) :
        /\ feed[k].element_name = model_file.displayName
        /\ "unchecked" \in DOMAIN feed[k]

\* C24: when the version history of some, but not all, candidate files
\* cannot be fetched, the returned feed flags those files as unchecked; a
\* file whose fetch failed is not silently treated as a file with no change
C24_FailedFetchIsFlagged ==
    \A e \in CompletedChecks :
        e.path = "stored" =>
            \A i \in 1..Len(e.fetched) :
                (/\ VersionFetchFailed(e, i)
                 /\ \E j \in 1..Len(e.fetched) : ~VersionFetchFailed(e, j))
                    => FlaggedUnchecked(e.result, e.model_files[i])


\* every change of every stored feed
StoredChanges ==
    UNION {{changes_db[p][k] : k \in 1..Len(changes_db[p])} : p \in DOMAIN changes_db}

\* C25: in every reachable state, every change stored in any project's feed,
\* whether it comes from a real check, a fall-back path or demo seeding, has
\* cost_impact >= 0 and schedule_impact >= 0 (a change without the field is
\* read with schedule_impact 0)
C25_StoredImpactsNonNegative ==
    \A c \in StoredChanges :
        /\ c.cost_impact >= 0
        /\ ScheduleImpactOf(c) >= 0
        /\ "schedule_impact" \in DOMAIN c => c.schedule_impact >= 0

\* a real check has stored a change for a file that shrank while a second
\* project holds a fabricated or seeded feed
C25_Witness ==
    /\ \E c \in StoredChanges :
        "details" \in DOMAIN c /\ c.details.file_size_change < 0
    /\ \E c \in StoredChanges : "details" \notin DOMAIN c

\* main_backup.py has seeded a feed whose changes carry a schedule_impact
C25_BackupSeeded ==
    \E c \in StoredChanges : "schedule_impact" \in DOMAIN c /\ c.schedule_impact > 0


\* the changes of a feed
ChangesOf(feed) == {feed[k] : k \in 1..Len(feed)}

\* C26: the feed is assembled and stored only after every candidate file's
\* version fetch and comparison has finished: a step that leaves a check
\* in progress leaves changes_db as it was, and while a check is in progress
\* the stored feed of its project holds none of the changes the check has
\* detected so far, so that a reader sees the complete previous feed
C26_FeedStoredAfterLastFetch ==
    /\ [][ \A t \in TaskIds :
            (InProgress(frames[t]) /\ InProgress(frames'[t]))
                => changes_db' = changes_db ]_vars
    /\ [](\A t \in TaskIds :
            InProgress(frames[t]) =>
                ChangesOf(StoredFeed(changes_db, frames[t].project_id))
                    \cap ChangesOf(frames[t].detected_changes) = {})

\* a check has compared the first of two model files and detected a change,
\* the second fetch is outstanding, and the project's stored feed is still
\* the non-empty feed of the earlier check
C26_Witness ==
    /\ frames[1].pc = "versions"
    /\ Len(frames[1].model_files) = 2
    /\ Len(frames[1].fetched) = 1
    /\ frames[1].detected_changes # <<>>
    /\ StoredFeed(changes_db, frames[1].project_id) # <<>>
    /\ \A c \in ChangesOf(StoredFeed(changes_db, frames[1].project_id)) :
        c.detected_at <= 1


\* C27: after any interleaving of project creation, connect, check-now,
\* scheduled checks and delete_project, every project id that has a feed in
\* changes_db is a project in projects_db: a check suspended on the
\* platform while its project is deleted does not re-create the feed
C27_FeedsBelongToProjects ==
    \A p \in DOMAIN changes_db : InProjects(projects_db, p)


\* C28: creating, connecting or deleting a project while a scheduler cycle
\* is suspended inside one project's check does not stop the cycle: when
\* the cycle has ended, for any reason other than an exception raised by a
\* check, every nightly project that was present at its start and has not
\* been deleted has been checked in it
C28_CycleSurvivesStoreChanges ==
    (sched.pc \in {"sleep_day", "sleep_retry"} /\ sched.error # "check_raised") =>
        \A p \in sched.cycle_due :
            InProjects(projects_db, p) => p \in sched.cycle_checked


\* the folder the check is to examine: the first listed folder whose name
\* contains "Project Files", "Plans" or "Models", the first listed folder
\* when none does, 0 when none is listed
NamedFolders(p) ==
    {f \in 1..Len(p.folders) :
        \E word \in {ProjectFilesWord, PlansWord, ModelsWord} :
            Contains(p.folders[f].name, word)}
ExpectedFolder(p) ==
    IF NamedFolders(p) # {}
    THEN CHOOSE f \in NamedFolders(p) : \A g \in NamedFolders(p) : f <= g
    ELSE IF Len(p.folders) > 0 THEN 1 ELSE 0

\* the entry is a file directly in the expected top-level folder
DirectFileOfExpectedFolder(p, item_id) ==
    /\ item_id[1] = ExpectedFolder(p)
    /\ item_id[2] \in 1..Len(p.folders[item_id[1]].contents)
    /\ p.folders[item_id[1]].contents[item_id[2]].type = "items"

\* C29: a check examines the direct contents of exactly one top-level
\* folder, the first listed folder whose name contains "Project Files",
\* "Plans" or "Models", or the first listed folder when none matches: the
\* folder whose contents it fetches is that one, every file whose versions
\* it fetches is directly in it, and every change of the feed is of such a
\* file, so that a file of another folder or of a subfolder yields nothing
C29_OneTopFolderExamined ==
    /\ \A t \in TaskIds :
        frames[t].pc \in {"contents", "versions"} =>
            /\ frames[t].project_files_folder = ExpectedFolder(platform)
            /\ \A i \in 1..Len(frames[t].model_files) :
                DirectFileOfExpectedFolder(platform, frames[t].model_files[i].id)
    /\ \A e \in CompletedChecks :
        /\ e.path = "no_folders" /\ e.folders_ok => ExpectedFolder(platform) = 0
        /\ e.path = "stored" =>
            /\ \A i \in 1..Len(e.model_files) :
                DirectFileOfExpectedFolder(platform, e.model_files[i].id)
            /\ \A k \in 1..Len(e.result) :
                \E i \in 1..Len(e.model_files) :
                    /\ e.result[k].element_name = e.model_files[i].displayName
                    /\ Len(e.fetched[i]) >= 2

\* the first listed folder matches no name and holds a changed model file,
\* the second is named "Plans" and holds a changed model file beside a
\* subfolder with another: the stored feed is the one change of the file
\* directly in "Plans"
C29_Witness ==
    /\ Len(platform.folders) = 2
    /\ platform.folders[1].name = DocsFolderName
    /\ platform.folders[1].contents # <<>>
    /\ platform.folders[2].name = PlansFolderName
    /\ \E e \in CompletedChecks :
        /\ e.path = "stored"
        /\ ElementNames(e.result) = <<NameRvt>>


\* the checks that ended in the step, by project and path
EndedOn(events, p, paths) ==
    \E i \in 1..Len(events) : events[i].project_id = p /\ events[i].path \in paths

\* C30: a project's last_checked is changed only by a check of that project
\* that reached the store step, after the folders were listed and the
\* contents of one requested: a check that ends on the unknown-project,
\* no-linked-project, missing-token, no-folders or exception path leaves it
\* unchanged, and no check changes the last_checked of another project
C30_LastCheckedOnlyByStoreStep ==
    [][ \A p \in 1..Len(projects_db) :
            /\ projects_db'[p].last_checked # projects_db[p].last_checked =>
                /\ \E i \in 1..Len(completed') :
                    /\ completed'[i].project_id = p
                    /\ completed'[i].path = "stored"
                    /\ completed'[i].folders_ok
                /\ projects_db'[p].last_checked = now'
            /\ (/\ EndedOn(completed', p, {"unknown_project", "no_autodesk_project",
                                           "no_token", "no_folders", "raised"})
                /\ ~EndedOn(completed', p, {"stored"}))
                    => projects_db'[p].last_checked = projects_db[p].last_checked ]_vars

\* a check of the first project has just reached the store step and stamped
\* it, while the second project, seeded earlier, keeps its own stamp
C30_Witness ==
    /\ Len(projects_db) = 2
    /\ EndedOn(completed, 1, {"stored"})
    /\ projects_db[1].last_checked = now
    /\ projects_db[2].last_checked # 0
    /\ projects_db[2].last_checked < now

\* a check-now of the first project ended on the no-folders path after an
\* earlier check had stamped it: the stamp is the earlier one
C30_NoFoldersKeepsStamp ==
    /\ EndedOn(completed, 1, {"no_folders"})
    /\ projects_db[1].last_checked # 0
    /\ projects_db[1].last_checked < now

====
